---- MODULE Spec2Model ----
(***************************************************************************)
(* The pizza shop of src/iterations/iteration-4.ts: a tick loop (simulate) *)
(* admits the orders of each minute (addOrder, which stamps the estimate   *)
(* of calculateDoneTime), then retires finished pizzas and moves queued    *)
(* pizzas into free ovens first-come first-served (cookPizzas).            *)
(***************************************************************************)
EXTENDS Integers, Sequences, FiniteSets, Bags, TLC

VARIABLES
    orders,            \* pizzaOrders, the input of simulate (fixed for a run)
    time,              \* the loop variable of simulate
    currentTime,       \* let currentTime
    nextPizzaId,       \* let nextPizzaId
    currentlyCooking,  \* let currentlyCooking: Pizza[]
    pizzaQueue,        \* const pizzaQueue: Pizza[]
    completedPizzas,   \* const completedPizzas: Pizza[]
    ordersAtThisTime,  \* the orders of this tick that forEach has yet to place
    endTime,           \* const endTime of addOrder (0 outside addOrder)
    pc,                \* position in simulate: "loop", "calc", "push", "cook",
                       \* "done" (the loop is left), "reported"
    fullAtAdmission,   \* history: the ids admitted while every oven was taken
    windowSize,        \* the argument of calculateOvenUsageTimeSeries (0 before the call)
    timeSeries,        \* const timeSeries of simulate: the report
    timeSlotTimeline,  \* part_000: the usedTime of each slot of timeSlotTimeline
    items,             \* part_000: const items
    item,              \* part_000: the argument of the last call of addItem
    thrown             \* part_000: what the last call of addItem threw ("none" if nothing)

\* The report of simulate.
reportVars == <<windowSize, timeSeries>>

\* The time-slot program (src/unnamed/part_000).
slotVars == <<timeSlotTimeline, items, item, thrown>>

vars == <<orders, time, currentTime, nextPizzaId, currentlyCooking, pizzaQueue,
          completedPizzas, ordersAtThisTime, endTime, pc, fullAtAdmission,
          reportVars, slotVars>>

\* The state the simulator owns, as opposed to the locals of a call.
simState == <<orders, currentTime, nextPizzaId, currentlyCooking, pizzaQueue,
              completedPizzas>>

-----------------------------------------------------------------------------
\* Program constants and the bounds of the inputs.

OVEN_CAPACITY == 3

\* cookStartTime?: number is undefined until the pizza is put in an oven.
UNDEFINED == -1

\* part_000: const interval, the minutes of a time slot.
interval == 10

\* simulate reports in windows of 10 minutes (the default of the parameter too).
DefaultWindowSize == 10

MaxOrders == 4
MaxOrderTime == 2
MaxCookTime == 2

\* The tick loop has no upper limit in the code; the model stops it here. No
\* run over well-formed orders gets this far (it has ended by LastTick).
MaxTick == MaxOrderTime + MaxOrders * (MaxCookTime + 1) + 2

-----------------------------------------------------------------------------
\* Helpers over sequences.

Range(s) == {s[i] : i \in 1..Len(s)}

\* Math.max for Math.min: the latest free time.
MathMin_Max(a) == CHOOSE m \in Range(a) : \A x \in Range(a) : m >= x

\* Math.min(...a) for a non-empty array.
MathMin(a) == CHOOSE m \in Range(a) : \A x \in Range(a) : m <= x

\* Insert x into the ascending sequence s, after the elements equal to it.
RECURSIVE Insert(_, _)
Insert(x, s) ==
    IF s = <<>> THEN <<x>>
    ELSE IF x < Head(s) THEN <<x>> \o s
    ELSE <<Head(s)>> \o Insert(x, Tail(s))

\* Array.prototype.sort((a, b) => a - b): ascending, stable.
RECURSIVE SortAscending(_)
SortAscending(a) ==
    IF a = <<>> THEN <<>>
    ELSE Insert(a[Len(a)], SortAscending(SubSeq(a, 1, Len(a) - 1)))

-----------------------------------------------------------------------------
\* calculateDoneTime

\* The forEach without its sort: the free times are sorted once, before the
\* loop, and every queued pizza is added to what was then the soonest oven.
RECURSIVE AddAllToFirst(_, _)
AddAllToFirst(ovenFreeTimes, queue) ==
    IF queue = <<>> THEN ovenFreeTimes
    ELSE AddAllToFirst([ovenFreeTimes EXCEPT ![1] = ovenFreeTimes[1] + Head(queue).cookTime],
                       Tail(queue))

QueueForEach_SortedOnce(ovenFreeTimes, queue) ==
    IF queue = <<>> THEN ovenFreeTimes
    ELSE AddAllToFirst(SortAscending(ovenFreeTimes), queue)

\* The forEach with no sort at all: every queued pizza is added to the first oven.
QueueForEach_NoSort(ovenFreeTimes, queue) == AddAllToFirst(ovenFreeTimes, queue)

\* The forEach left out: the waiting pizzas take no oven time.
QueueForEach_Skipped(ovenFreeTimes, queue) == ovenFreeTimes

\* pizzaQueue.forEach: sort the free times, then add the pizza's cook time to
\* the first (soonest) one.
RECURSIVE QueueForEach(_, _)
QueueForEach(ovenFreeTimes, queue) ==
    IF queue = <<>> THEN ovenFreeTimes
    ELSE LET sorted == SortAscending(ovenFreeTimes)
         IN QueueForEach([sorted EXCEPT ![1] = sorted[1] + Head(queue).cookTime],
                         Tail(queue))

\* calculateDoneTime whose idle-oven branch forgets the current time.
calculateDoneTime_NoCurrentTime(order) ==
    IF Len(currentlyCooking) < OVEN_CAPACITY
    THEN order.cookTime
    ELSE LET ovenFreeTimes == [i \in 1..Len(currentlyCooking) |->
                                  currentlyCooking[i].cookEndTime]
             earliestStart == MathMin(QueueForEach(ovenFreeTimes, pizzaQueue))
         IN earliestStart + order.cookTime

\* The body of calculateDoneTime, over the globals it reads.
DoneTimeFor(cooking, queue, now, order) ==
    IF Len(cooking) < OVEN_CAPACITY
    THEN order.cookTime + now
    ELSE LET ovenFreeTimes == [i \in 1..Len(cooking) |-> cooking[i].cookEndTime]
             earliestStart == MathMin(QueueForEach(ovenFreeTimes, queue))
         IN earliestStart + order.cookTime

\* The value calculateDoneTime returns for `order` in the current state.
calculateDoneTime(order) ==
    DoneTimeFor(currentlyCooking, pizzaQueue, currentTime, order)

\* currentlyCooking sorted by cookEndTime, ascending and stable.
RECURSIVE InsertPizza(_, _)
InsertPizza(p, s) ==
    IF s = <<>> THEN <<p>>
    ELSE IF p.cookEndTime < Head(s).cookEndTime THEN <<p>> \o s
    ELSE <<Head(s)>> \o InsertPizza(p, Tail(s))

RECURSIVE SortPizzas(_)
SortPizzas(a) ==
    IF a = <<>> THEN <<>>
    ELSE InsertPizza(a[Len(a)], SortPizzas(SubSeq(a, 1, Len(a) - 1)))

\* The call with the ovens sorted in place before their free times are read
\* (currentlyCooking.sort(...) for a sort of the copy).
CalculateDoneTime_SortsOvens ==
    /\ pc = "calc"
    /\ endTime' = calculateDoneTime(Head(ordersAtThisTime))
    /\ currentlyCooking' = IF Len(currentlyCooking) < OVEN_CAPACITY \/ pizzaQueue = <<>>
                           THEN currentlyCooking
                           ELSE SortPizzas(currentlyCooking)
    /\ pc' = "push"
    /\ UNCHANGED <<orders, time, currentTime, nextPizzaId,
                   pizzaQueue, completedPizzas, ordersAtThisTime>>
    /\ UNCHANGED <<fullAtAdmission, reportVars, slotVars>>

\* The call addOrder makes: the result goes to endTime; ovenFreeTimes is a
\* fresh array of numbers (map), so sorting and adding to it touches no pizza.
CalculateDoneTime ==
    /\ pc = "calc"
    /\ endTime' = calculateDoneTime(Head(ordersAtThisTime))
    /\ pc' = "push"
    /\ UNCHANGED <<orders, time, currentTime, nextPizzaId, currentlyCooking,
                   pizzaQueue, completedPizzas, ordersAtThisTime>>
    /\ UNCHANGED <<fullAtAdmission, reportVars, slotVars>>

-----------------------------------------------------------------------------
\* addOrder, after its call of calculateDoneTime

AddOrder ==
    /\ pc = "push"
    /\ LET order == Head(ordersAtThisTime)
           idleTime == endTime - order.orderTime - order.cookTime
           newPizzaId == nextPizzaId
       IN /\ nextPizzaId' = nextPizzaId + 1
          /\ pizzaQueue' = Append(pizzaQueue,
                 [id |-> newPizzaId, orderTime |-> order.orderTime,
                  cookTime |-> order.cookTime, cookStartTime |-> UNDEFINED,
                  cookEndTime |-> endTime, idleTime |-> idleTime])
    /\ ordersAtThisTime' = Tail(ordersAtThisTime)
    /\ endTime' = 0
    /\ pc' = IF Tail(ordersAtThisTime) = <<>> THEN "cook" ELSE "calc"
    /\ UNCHANGED <<orders, time, currentTime, currentlyCooking, completedPizzas>>
    /\ fullAtAdmission' = IF Len(currentlyCooking) < OVEN_CAPACITY
                          THEN fullAtAdmission
                          ELSE fullAtAdmission \cup {nextPizzaId}
    /\ UNCHANGED <<reportVars, slotVars>>

-----------------------------------------------------------------------------
\* cookPizzas

\* A pizza is done when the current time is past or equal to its cook end time.
Done(pizza) == pizza.cookEndTime <= currentTime

\* The while loop with the capacity test off by one (<= for <).
RECURSIVE StartCooking_OneTooMany(_, _)
StartCooking_OneTooMany(cooking, queue) ==
    IF Len(cooking) <= OVEN_CAPACITY /\ Len(queue) > 0
    THEN LET pizza == Head(queue)
             started == [pizza EXCEPT !.cookStartTime = currentTime,
                                      !.cookEndTime = currentTime + pizza.cookTime]
         IN StartCooking_OneTooMany(Append(cooking, started), Tail(queue))
    ELSE <<cooking, queue>>

\* The while loop taking the last pizza of the queue (pop() for shift()).
RECURSIVE StartCooking_Pop(_, _)
StartCooking_Pop(cooking, queue) ==
    IF Len(cooking) < OVEN_CAPACITY /\ Len(queue) > 0
    THEN LET pizza == queue[Len(queue)]
             started == [pizza EXCEPT !.cookStartTime = currentTime,
                                      !.cookEndTime = currentTime + pizza.cookTime]
         IN StartCooking_Pop(Append(cooking, started), SubSeq(queue, 1, Len(queue) - 1))
    ELSE <<cooking, queue>>

\* The while loop also recomputing idleTime from the actual start.
RECURSIVE StartCooking_RestampsIdle(_, _)
StartCooking_RestampsIdle(cooking, queue) ==
    IF Len(cooking) < OVEN_CAPACITY /\ Len(queue) > 0
    THEN LET pizza == Head(queue)
             started == [pizza EXCEPT !.cookStartTime = currentTime,
                                      !.cookEndTime = currentTime + pizza.cookTime,
                                      !.idleTime = currentTime - pizza.orderTime]
         IN StartCooking_RestampsIdle(Append(cooking, started), Tail(queue))
    ELSE <<cooking, queue>>

\* The loop run at most once (if for while): one pizza started per tick.
StartCooking_OnlyOne(cooking, queue) ==
    IF Len(cooking) < OVEN_CAPACITY /\ Len(queue) > 0
    THEN LET pizza == Head(queue)
             started == [pizza EXCEPT !.cookStartTime = currentTime,
                                      !.cookEndTime = currentTime + pizza.cookTime]
         IN <<Append(cooking, started), Tail(queue)>>
    ELSE <<cooking, queue>>

\* The while loop: shift pizzas off the queue into the ovens while there is room.
\* Returns the pair <<currentlyCooking, pizzaQueue>> the loop ends with.
RECURSIVE StartCooking(_, _)
StartCooking(cooking, queue) ==
    IF Len(cooking) < OVEN_CAPACITY /\ Len(queue) > 0
    THEN LET pizza == Head(queue)
             started == [pizza EXCEPT !.cookStartTime = currentTime,
                                      !.cookEndTime = currentTime + pizza.cookTime]
         IN StartCooking(Append(cooking, started), Tail(queue))
    ELSE <<cooking, queue>>

\* cookPizzas dropping the result of filter: finished pizzas stay in the ovens.
CookPizzas_FilterResultDropped ==
    /\ pc = "cook"
    /\ LET finished == SelectSeq(currentlyCooking, Done)
           after == StartCooking(currentlyCooking, pizzaQueue)
       IN /\ completedPizzas' = completedPizzas \o finished
          /\ currentlyCooking' = after[1]
          /\ pizzaQueue' = after[2]
    /\ time' = time + 1
    /\ pc' = "loop"
    /\ UNCHANGED <<orders, currentTime, nextPizzaId, ordersAtThisTime, endTime>>
    /\ UNCHANGED <<fullAtAdmission, reportVars, slotVars>>

CookPizzas ==
    /\ pc = "cook"
    /\ LET finished == SelectSeq(currentlyCooking, Done)
           stillCooking == SelectSeq(currentlyCooking, LAMBDA p : ~Done(p))
           after == StartCooking(stillCooking, pizzaQueue)
       IN /\ completedPizzas' = completedPizzas \o finished
          /\ currentlyCooking' = after[1]
          /\ pizzaQueue' = after[2]
    /\ time' = time + 1
    /\ pc' = "loop"
    /\ UNCHANGED <<orders, currentTime, nextPizzaId, ordersAtThisTime, endTime>>
    /\ UNCHANGED <<fullAtAdmission, reportVars, slotVars>>

-----------------------------------------------------------------------------
\* calculateOvenUsageTimeSeries

Max2(a, b) == IF a >= b THEN a ELSE b
Min2(a, b) == IF a <= b THEN a ELSE b

\* The overlap without the clip at the end of the window.
OverlapMinutes_NoClip(pizza, windowStart, windowEnd) ==
    IF pizza.cookStartTime = UNDEFINED THEN 0
    ELSE LET overlapStart == Max2(pizza.cookStartTime, windowStart)
             overlapEnd == pizza.cookEndTime
         IN IF overlapStart < windowEnd /\ overlapStart < overlapEnd
            THEN overlapEnd - overlapStart ELSE 0

\* What one pizza adds to totalOvenMinutes for the window.
OverlapMinutes(pizza, windowStart, windowEnd) ==
    IF pizza.cookStartTime = UNDEFINED THEN 0
    ELSE LET overlapStart == Max2(pizza.cookStartTime, windowStart)
             overlapEnd == Min2(pizza.cookEndTime, windowEnd)
         IN IF overlapStart < overlapEnd THEN overlapEnd - overlapStart ELSE 0

\* completedPizzas.forEach: the sum over the pizzas.
RECURSIVE TotalOvenMinutes(_, _, _)
TotalOvenMinutes(pizzas, windowStart, windowEnd) ==
    IF pizzas = <<>> THEN 0
    ELSE OverlapMinutes(Head(pizzas), windowStart, windowEnd)
           + TotalOvenMinutes(Tail(pizzas), windowStart, windowEnd)

\* Math.round(totalOvenMinutes / (OVEN_CAPACITY * windowSize) * 100), the
\* number in front of the "%".
Utilization(totalOvenMinutes, size) ==
    (200 * totalOvenMinutes + OVEN_CAPACITY * size) \div (2 * OVEN_CAPACITY * size)

\* The for loop stopping at the last window that ends by the current time
\* (windowEnd <= currentTime for windowStart <= currentTime).
RECURSIVE WindowsFrom_WholeOnly(_, _)
WindowsFrom_WholeOnly(windowStart, size) ==
    IF windowStart + size <= currentTime
    THEN LET windowEnd == windowStart + size
             totalOvenMinutes == TotalOvenMinutes(completedPizzas, windowStart, windowEnd)
         IN <<[startTime |-> windowStart, endTime |-> windowEnd - 1,
               usedTime |-> totalOvenMinutes,
               utilization |-> Utilization(totalOvenMinutes, size)]>>
              \o WindowsFrom_WholeOnly(windowStart + size, size)
    ELSE <<>>

\* The for loop of the windows, from windowStart on.
RECURSIVE WindowsFrom(_, _)
WindowsFrom(windowStart, size) ==
    IF windowStart <= currentTime
    THEN LET windowEnd == windowStart + size
             totalOvenMinutes == TotalOvenMinutes(completedPizzas, windowStart, windowEnd)
         IN <<[startTime |-> windowStart, endTime |-> windowEnd - 1,
               usedTime |-> totalOvenMinutes,
               utilization |-> Utilization(totalOvenMinutes, size)]>>
              \o WindowsFrom(windowStart + size, size)
    ELSE <<>>

calculateOvenUsageTimeSeries(size) ==
    IF Len(completedPizzas) = 0 THEN <<>> ELSE WindowsFrom(0, size)

-----------------------------------------------------------------------------
\* simulate

\* One pass of the loop head: test the condition, advance the time and pick
\* the orders that arrive at this tick.
Tick ==
    /\ pc = "loop"
    /\ Len(completedPizzas) < Len(orders)
    /\ time <= MaxTick
    /\ currentTime' = time
    /\ ordersAtThisTime' = SelectSeq(orders, LAMBDA o : o.orderTime = time)
    /\ pc' = IF ordersAtThisTime' = <<>> THEN "cook" ELSE "calc"
    /\ UNCHANGED <<orders, time, nextPizzaId, currentlyCooking, pizzaQueue,
                   completedPizzas, endTime>>
    /\ UNCHANGED <<fullAtAdmission, reportVars, slotVars>>

\* The loop condition fails: the loop is left.
Finish ==
    /\ pc = "loop"
    /\ ~(Len(completedPizzas) < Len(orders))
    /\ pc' = "done"
    /\ UNCHANGED <<orders, time, currentTime, nextPizzaId, currentlyCooking,
                   pizzaQueue, completedPizzas, ordersAtThisTime, endTime>>
    /\ UNCHANGED <<fullAtAdmission, reportVars, slotVars>>

MaxWindowSize == 3

\* The window sizes the report is asked for: the 10 of simulate, and small ones.
WindowSizes == (1..MaxWindowSize) \cup {DefaultWindowSize}

\* After the loop: const timeSeries = calculateOvenUsageTimeSeries(...).
Report ==
    /\ pc = "done"
    /\ \E size \in WindowSizes :
           /\ windowSize' = size
           /\ timeSeries' = calculateOvenUsageTimeSeries(size)
    /\ pc' = "reported"
    /\ UNCHANGED <<orders, time, currentTime, nextPizzaId, currentlyCooking,
                   pizzaQueue, completedPizzas, ordersAtThisTime, endTime,
                   fullAtAdmission, slotVars>>

-----------------------------------------------------------------------------
\* Inputs. simulate reads orders only through orders.filter(orderTime === time),
\* which keeps the input order within a tick, so a list behaves exactly as the
\* same list stably sorted by orderTime; the inputs are taken sorted, as
\* pizzaOrders is.

Order(t, c) == [orderTime |-> t, cookTime |-> c]

SortedByOrderTime(s) == \A i \in 1..(Len(s) - 1) : s[i].orderTime <= s[i + 1].orderTime

\* orders is a list of at most MaxOrders orders over the given times.
OrdersFrom(orderTimes, cookTimes) ==
    \E n \in 0..MaxOrders :
        /\ orders \in [1..n -> {Order(t, c) : t \in orderTimes, c \in cookTimes}]
        /\ SortedByOrderTime(orders)

\* part_000: the timeline as the program declares it, seven slots of ten minutes.
NumSlots == 7

EmptyTimeline ==
    [i \in 1..NumSlots |-> [startTime |-> interval * (i - 1),
                            endTime |-> interval * (i - 1) + interval - 1,
                            usedTime |-> 0]]

\* Nothing reported yet, no item added yet.
OthersStart ==
    /\ fullAtAdmission = {}
    /\ windowSize = 0
    /\ timeSeries = <<>>
    /\ timeSlotTimeline = EmptyTimeline
    /\ items = <<>>
    /\ item = [startTime |-> 0, prepTime |-> 0]
    /\ thrown = "none"

StartState ==
    /\ OthersStart
    /\ time = 0
    /\ currentTime = 0
    /\ nextPizzaId = 1
    /\ currentlyCooking = <<>>
    /\ pizzaQueue = <<>>
    /\ completedPizzas = <<>>
    /\ ordersAtThisTime = <<>>
    /\ endTime = 0
    /\ pc = "loop"

\* Well-formed orders: arrival at a non-negative tick, a non-negative cook time.
Init ==
    /\ OrdersFrom(0..MaxOrderTime, 0..MaxCookTime)
    /\ StartState

\* Any orders at all: arrival and cook time may be negative.
InitAny ==
    /\ OrdersFrom((-1)..MaxOrderTime, (-1)..MaxCookTime)
    /\ StartState

Next == Tick \/ CalculateDoneTime \/ AddOrder \/ CookPizzas \/ Finish \/ Report

Spec == Init /\ [][Next]_vars

SpecAny == InitAny /\ [][Next]_vars

-----------------------------------------------------------------------------
\* A busy run: enough orders, each with a positive cook time, that an order
\* arrives while every oven is taken and another one is already waiting.

MaxBusyOrders == 5
MaxBusyOrderTime == 1
MaxBusyCookTime == 2

InitBusy ==
    /\ orders \in [1..MaxBusyOrders ->
                      {Order(t, c) : t \in 0..MaxBusyOrderTime, c \in 1..MaxBusyCookTime}]
    /\ SortedByOrderTime(orders)
    /\ StartState

SpecBusy == InitBusy /\ [][Next]_vars

-----------------------------------------------------------------------------
\* part_000: addItem over the precomputed timeline.

MaxPrepTime == 12
MaxItems == 2

\* Offsets of a start time inside its slot: first minute, a middle one, last.
SlotOffsets == {0, 5, interval - 1}

\* Start times in every slot, before the timeline (-1) and after it.
StartTimes == {-1} \cup {interval * k + r : k \in 0..NumSlots, r \in SlotOffsets}

PrepTimes == 0..MaxPrepTime

\* timeSlotTimeline.findIndex: the 0-based index of the first slot that holds
\* startTime, -1 when no slot does.
FindIndex(timeline, startTime) ==
    LET found == {i \in 1..Len(timeline) :
                     /\ startTime >= timeline[i].startTime
                     /\ startTime <= timeline[i].endTime}
    IN IF found = {} THEN -1
       ELSE (CHOOSE i \in found : \A j \in found : i <= j) - 1

\* The while loop of addItem from a 0-based timeSlotIndex. Reading endTime of
\* a slot that does not exist raises a TypeError; the usage added before it
\* stays in the timeline.
RECURSIVE AddUsage(_, _, _, _)
AddUsage(timeline, timeSlotIndex, remainingCookTime, startTime) ==
    IF ~(remainingCookTime > 0)
    THEN [timeline |-> timeline, thrown |-> "none"]
    ELSE IF timeSlotIndex + 1 \notin 1..Len(timeline)
    THEN [timeline |-> timeline, thrown |-> "TypeError"]
    ELSE LET slot == timeline[timeSlotIndex + 1]
             currentTimeRemaining == slot.endTime - startTime + 1
             usageThisSlot ==
                 Min2(Min2(remainingCookTime, interval), currentTimeRemaining)
         IN AddUsage([timeline EXCEPT ![timeSlotIndex + 1].usedTime = @ + usageThisSlot],
                     timeSlotIndex + 1, remainingCookTime - usageThisSlot, startTime)

\* !timeSlotIndex: true of 0 alone among the values findIndex returns.
Not(timeSlotIndex) == timeSlotIndex = 0

\* addItem(newItem). An error ends the program: nothing is added after it.
AddItem ==
    /\ thrown = "none"
    /\ Len(items) < MaxItems
    /\ \E s \in StartTimes, p \in PrepTimes :
           LET newItem == [startTime |-> s, prepTime |-> p]
               timeSlotIndex == FindIndex(timeSlotTimeline, s)
               result == AddUsage(timeSlotTimeline, timeSlotIndex, p, s)
           IN /\ item' = newItem
              /\ IF Not(timeSlotIndex)
                 THEN /\ thrown' = "No time slot found"
                      /\ UNCHANGED <<timeSlotTimeline, items>>
                 ELSE /\ timeSlotTimeline' = result.timeline
                      /\ thrown' = result.thrown
                      /\ items' = IF result.thrown = "none"
                                  THEN Append(items, newItem) ELSE items
    /\ UNCHANGED <<simState, orders, time, ordersAtThisTime, endTime, pc,
                   fullAtAdmission, reportVars>>

InitSlots ==
    /\ orders = <<>>
    /\ StartState

NextSlots == AddItem

SpecSlots == InitSlots /\ [][NextSlots]_vars

-----------------------------------------------------------------------------
\* The estimator on its own: calculateDoneTime is called in a state with every
\* oven taken, any free times, any queue and any new order.

MaxFreeTime == 3
MaxQueue == 3

\* A pizza in an oven that is free at minute e.
CookingPizza(i, e) ==
    [id |-> i, orderTime |-> 0, cookTime |-> e, cookStartTime |-> 0,
     cookEndTime |-> e, idleTime |-> 0]

\* A waiting pizza of cook time c.
QueuedPizza(i, c) ==
    [id |-> i, orderTime |-> 0, cookTime |-> c, cookStartTime |-> UNDEFINED,
     cookEndTime |-> c, idleTime |-> 0]

InitEstimator ==
    /\ \E f \in [1..OVEN_CAPACITY -> 0..MaxFreeTime] :
           currentlyCooking = [i \in 1..OVEN_CAPACITY |-> CookingPizza(i, f[i])]
    /\ \E n \in 0..MaxQueue : \E c \in [1..n -> 0..MaxCookTime] :
           pizzaQueue = [i \in 1..n |-> QueuedPizza(OVEN_CAPACITY + i, c[i])]
    /\ \E c \in 0..MaxCookTime : ordersAtThisTime = <<Order(0, c)>>
    /\ orders = ordersAtThisTime
    /\ nextPizzaId = OVEN_CAPACITY + Len(pizzaQueue) + 1
    /\ completedPizzas = <<>>
    /\ time = 0
    /\ currentTime = 0
    /\ endTime = 0
    /\ pc = "calc"
    /\ OthersStart

NextEstimator == CalculateDoneTime

SpecEstimator == InitEstimator /\ [][NextEstimator]_vars

-----------------------------------------------------------------------------
\* Every pizza the shop holds, and where a pizza is in its life.

AllOf(queue, cooking, completed) == queue \o cooking \o completed

AllPizzas == AllOf(pizzaQueue, currentlyCooking, completedPizzas)

Started(p) == p.cookStartTime # UNDEFINED

\* The prediction stamped at admission, as idleTime keeps it.
Predicted(p) == p.orderTime + p.cookTime + p.idleTime

-----------------------------------------------------------------------------
\* C1. Capacity invariant: in every reachable state the number of pizzas in
\* currentlyCooking is at most OVEN_CAPACITY.
C1_CapacityInvariant == Len(currentlyCooking) <= OVEN_CAPACITY

\* All ovens are taken while a pizza waits.
C1_Witness == Len(currentlyCooking) = OVEN_CAPACITY /\ Len(pizzaQueue) > 0 /\ pc = "loop"

\* C2. Conservation: every pizza admitted so far (ids 1 .. nextPizzaId - 1) is
\* in exactly one of pizzaQueue, currentlyCooking and completedPizzas, so the
\* three lengths add up to the number of pizzas admitted.
C2_Conservation ==
    /\ Len(pizzaQueue) + Len(currentlyCooking) + Len(completedPizzas) = nextPizzaId - 1
    /\ \A id \in 1..(nextPizzaId - 1) :
           Cardinality({i \in 1..Len(AllPizzas) : AllPizzas[i].id = id}) = 1

\* A pizza waits, one cooks and one is completed, at once.
C2_Witness == pizzaQueue # <<>> /\ currentlyCooking # <<>> /\ completedPizzas # <<>>

\* C3. First come, first served: of two pizzas, the one admitted first (the
\* smaller id) is put in an oven no later than the other: it is never still
\* waiting when the other has started, and its cookStartTime is not the later.
C3_FCFS ==
    \A a \in Range(AllPizzas), b \in Range(AllPizzas) :
        a.id < b.id /\ Started(b) => Started(a) /\ a.cookStartTime <= b.cookStartTime

\* Two pizzas ordered in the same minute, so both in the queue at once; the
\* first went into an oven at once and the second had to wait.
C3_Witness ==
    \E a \in Range(AllPizzas), b \in Range(AllPizzas) :
        /\ a.id < b.id /\ a.orderTime = b.orderTime
        /\ Started(a) /\ Started(b) /\ a.cookStartTime < b.cookStartTime

\* C4. Idle start: a pizza admitted while fewer than OVEN_CAPACITY ovens are
\* taken is stamped with orderTime + cookTime as its finish, and no idle time,
\* whatever waits in the queue.
C4_IdleStart ==
    [][pc = "push" /\ Len(currentlyCooking) < OVEN_CAPACITY =>
          LET p == pizzaQueue'[Len(pizzaQueue')]
          IN /\ p.cookEndTime = p.orderTime + p.cookTime
             /\ p.idleTime = 0
             /\ endTime = p.cookEndTime]_vars

\* An order placed after minute 0 was just stamped through the idle branch,
\* with an oven taken and another pizza ahead of it in the queue.
C4_Witness ==
    /\ pc \in {"calc", "cook"}
    /\ currentTime > 0
    /\ Len(pizzaQueue) >= 2
    /\ pizzaQueue[Len(pizzaQueue)].orderTime = currentTime
    /\ currentlyCooking # <<>> /\ Len(currentlyCooking) < OVEN_CAPACITY

\* C8, as claimed: the finish time recorded for a pizza at admission
\* (cookEndTime, the estimate) is the same in every later state.
C8_PredictionNeverChanges ==
    [][\A p \in Range(AllPizzas) :
          \A q \in Range(AllOf(pizzaQueue', currentlyCooking', completedPizzas')) :
              p.id = q.id => q.cookEndTime = p.cookEndTime]_vars

\* C8, amended: the estimate is made once and never recomputed: idleTime
\* (estimate - orderTime - cookTime) is the same in every later state, and
\* cookEndTime keeps the estimate while the pizza waits; putting the pizza in an
\* oven overwrites cookEndTime with currentTime + cookTime, and from then on
\* the record does not change.
C8_PredictionKeptInIdleTime ==
    [][\A p \in Range(AllPizzas) :
          \A q \in Range(AllOf(pizzaQueue', currentlyCooking', completedPizzas')) :
              p.id = q.id =>
                  /\ Predicted(q) = Predicted(p)
                  /\ q.idleTime = p.idleTime
                  /\ ~Started(q) => q.cookEndTime = p.cookEndTime
                  /\ ~Started(p) /\ Started(q) =>
                         q.cookEndTime = currentTime + p.cookTime
                  /\ Started(p) => q = p]_vars

\* A pizza in an oven or completed whose actual finish differs from the
\* estimate it was stamped with.
C8_Witness ==
    \E p \in Range(currentlyCooking \o completedPizzas) : p.cookEndTime # Predicted(p)

-----------------------------------------------------------------------------
\* The reference the estimator is compared with: greedy list scheduling over
\* the bag of free times.

RECURSIVE SeqToBag(_)
SeqToBag(s) == IF s = <<>> THEN EmptyBag ELSE SetToBag({Head(s)}) (+) SeqToBag(Tail(s))

BagMin(B) == CHOOSE m \in BagToSet(B) : \A x \in BagToSet(B) : m <= x

\* Each queued pizza in turn takes the oven that is free soonest.
RECURSIVE GreedyFreeTimes(_, _)
GreedyFreeTimes(B, queue) ==
    IF queue = <<>> THEN B
    ELSE LET m == BagMin(B)
         IN GreedyFreeTimes((B (-) SetToBag({m})) (+) SetToBag({m + Head(queue).cookTime}),
                            Tail(queue))

ReferenceDoneTime(cooking, queue, order) ==
    BagMin(GreedyFreeTimes(SeqToBag([i \in 1..Len(cooking) |-> cooking[i].cookEndTime]),
                           queue)) + order.cookTime

\* C5. With every oven taken, calculateDoneTime returns the result of greedy
\* list scheduling: from the bag of the ovens' cookEndTimes, each queued pizza
\* in order adds its cookTime to the least free time, and the result is the
\* least free time left plus the new order's cookTime.
C5_MatchesGreedyReference ==
    pc = "push" /\ Len(currentlyCooking) = OVEN_CAPACITY =>
        endTime = ReferenceDoneTime(currentlyCooking, pizzaQueue, Head(ordersAtThisTime))

\* The estimate was made over a queue of two or more with the ovens in no
\* sorted order, and the new pizza has to wait behind the queue.
C5_Witness ==
    /\ pc = "push" /\ Len(currentlyCooking) = OVEN_CAPACITY /\ Len(pizzaQueue) >= 2
    /\ currentlyCooking[1].cookEndTime > currentlyCooking[2].cookEndTime
    /\ endTime > MathMin([i \in 1..OVEN_CAPACITY |-> currentlyCooking[i].cookEndTime])
                    + Head(ordersAtThisTime).cookTime

\* C9. Estimator purity: the call of calculateDoneTime changes nothing the
\* simulator owns: currentlyCooking (its pizzas, their cookEndTimes and their
\* order), pizzaQueue, completedPizzas, currentTime and nextPizzaId.
C9_EstimatorPure == [][pc = "calc" => UNCHANGED simState]_vars

\* The call has returned from the branch that sorts and adds (every oven
\* taken, a queue to step through), with ovens that were not in sorted order.
C9_Witness ==
    /\ pc = "push" /\ Len(currentlyCooking) = OVEN_CAPACITY /\ pizzaQueue # <<>>
    /\ \E i \in 1..(OVEN_CAPACITY - 1) :
           currentlyCooking[i].cookEndTime > currentlyCooking[i + 1].cookEndTime

-----------------------------------------------------------------------------
\* The pizzas a step of cookPizzas retires: in completedPizzas after it, not before.
Retired(before, after) == {p \in Range(after) : \A q \in Range(before) : q.id # p.id}

\* C6. Every pizza put in an oven cooks for exactly its cookTime: its finish
\* is cookStartTime + cookTime, and cookPizzas takes it out of the ovens and
\* appends it to completedPizzas at the tick equal to that finish, no earlier
\* and no later.
C6_RetiredAtFinishTime ==
    [][pc = "cook" =>
          /\ \A p \in Range(currentlyCooking') :
                 /\ p.cookEndTime = p.cookStartTime + p.cookTime
                 /\ p.cookEndTime >= currentTime
          /\ \A p \in Retired(completedPizzas, completedPizzas') :
                 /\ p.cookEndTime = p.cookStartTime + p.cookTime
                 /\ p.cookEndTime = currentTime]_vars

\* What the code does instead for a pizza of cook time 0 or less: it is
\* retired in the tick after the one that put it in the oven.
C6_RetiredAtFinishOrNextTick ==
    [][pc = "cook" =>
          /\ \A p \in Range(currentlyCooking') :
                 /\ p.cookEndTime = p.cookStartTime + p.cookTime
                 /\ p.cookEndTime > currentTime \/ p.cookStartTime = currentTime
          /\ \A p \in Retired(completedPizzas, completedPizzas') :
                 /\ p.cookEndTime = p.cookStartTime + p.cookTime
                 /\ IF p.cookTime > 0 THEN p.cookEndTime = currentTime
                                      ELSE p.cookStartTime + 1 = currentTime]_vars

-----------------------------------------------------------------------------
\* The tick by which a run over `os` must have ended: after the last arrival
\* every tick retires a pizza or has one cooking; a pizza of cook time c holds
\* an oven for max(c, 1) ticks.
RECURSIVE TicksOfCooking(_)
TicksOfCooking(os) ==
    IF os = <<>> THEN 0
    ELSE (IF Head(os).cookTime > 1 THEN Head(os).cookTime ELSE 1) + TicksOfCooking(Tail(os))

LastArrival(os) ==
    LET ts == {o.orderTime : o \in Range(os)} \cup {0}
    IN CHOOSE t \in ts : \A u \in ts : u <= t

LastTick(os) == IF os = <<>> THEN 0 ELSE LastArrival(os) + TicksOfCooking(os) + 1

\* C7. Termination: for every list of orders the tick loop stops (by the tick
\* LastTick at the latest), and when it has stopped every order has been
\* admitted and retired: completedPizzas holds them all, and the queue and the
\* ovens are empty.
C7_LoopStopsWithAllRetired ==
    /\ time <= LastTick(orders)
    /\ pc = "done" =>
           /\ Len(completedPizzas) = Len(orders)
           /\ nextPizzaId = Len(orders) + 1
           /\ pizzaQueue = <<>> /\ currentlyCooking = <<>>

\* An order no run can accept, as the error handling has it.
Malformed(o) == o.cookTime <= 0 \/ o.orderTime < 0

\* C10. Configuration errors are rejected before the simulation starts: with
\* an order of non-positive cook time or negative order time in the input, no
\* tick is executed: nothing is admitted, started or completed.
C10_MalformedOrdersRunNoTick ==
    (\E o \in Range(orders) : Malformed(o)) =>
        /\ pc = "loop" /\ time = 0 /\ nextPizzaId = 1
        /\ pizzaQueue = <<>> /\ currentlyCooking = <<>> /\ completedPizzas = <<>>

-----------------------------------------------------------------------------
\* The report, from its definition: the minutes of [cookStartTime, cookEndTime)
\* that lie in the window, summed over a set of pizzas.

MinutesInWindow(p, windowStart, windowEnd) ==
    Max2(0, Min2(p.cookEndTime, windowEnd) - Max2(p.cookStartTime, windowStart))

RECURSIVE MinutesOfAll(_, _, _)
MinutesOfAll(S, windowStart, windowEnd) ==
    IF S = {} THEN 0
    ELSE LET p == CHOOSE q \in S : TRUE
         IN MinutesInWindow(p, windowStart, windowEnd)
              + MinutesOfAll(S \ {p}, windowStart, windowEnd)

UsedInWindow(windowStart, windowEnd) ==
    MinutesOfAll(Range(completedPizzas), windowStart, windowEnd)

\* The report holds the windows that start at 0, W, 2W, ... up to the final
\* tick, each with the minutes used in it.
ReportsEveryWindow ==
    /\ Len(timeSeries) = (currentTime \div windowSize) + 1
    /\ \A k \in 1..Len(timeSeries) :
           /\ timeSeries[k].startTime = (k - 1) * windowSize
           /\ timeSeries[k].endTime = k * windowSize - 1
           /\ timeSeries[k].usedTime =
                  UsedInWindow((k - 1) * windowSize, k * windowSize)

\* C11, as claimed: for every window [k*W, k*W + W) with k*W <= final tick the
\* report gives as usedTime the sum over the completed pizzas of
\* max(0, min(cookEndTime, windowEnd) - max(cookStartTime, windowStart)), and
\* exactly these windows are reported.
C11_ReportsEveryWindow == pc = "reported" => ReportsEveryWindow

\* C11, amended: so it is when a pizza has been completed; with no completed
\* pizza (an empty list of orders) the report is empty: not even the window
\* that starts at 0 is reported.
C11_ReportsEveryWindowUnlessEmpty ==
    pc = "reported" =>
        IF completedPizzas = <<>> THEN timeSeries = <<>> ELSE ReportsEveryWindow

\* A report of two windows or more with a pizza that cooked across the end of
\* a window.
C11_Witness ==
    /\ pc = "reported" /\ Len(timeSeries) >= 2
    /\ \E p \in Range(completedPizzas), k \in 1..Len(timeSeries) :
           p.cookStartTime < k * windowSize /\ k * windowSize < p.cookEndTime

\* C19. The report never shows more than full capacity: every window has
\* usedTime <= OVEN_CAPACITY * windowSize.
C19_UsedWithinCapacity ==
    pc = "reported" =>
        \A k \in 1..Len(timeSeries) :
            /\ timeSeries[k].usedTime <= OVEN_CAPACITY * windowSize
            /\ timeSeries[k].utilization <= 100

\* A window in which every oven was in use for every minute, while a pizza waited.
C19_Witness ==
    /\ pc = "reported" /\ windowSize > 1
    /\ \E k \in 1..Len(timeSeries) :
           timeSeries[k].usedTime = OVEN_CAPACITY * windowSize
    /\ \E p \in Range(completedPizzas) : p.cookStartTime > p.orderTime

RECURSIVE TotalUsedTime(_)
TotalUsedTime(series) ==
    IF series = <<>> THEN 0 ELSE Head(series).usedTime + TotalUsedTime(Tail(series))

RECURSIVE TotalCookTime(_)
TotalCookTime(pizzas) ==
    IF pizzas = <<>> THEN 0 ELSE Head(pizzas).cookTime + TotalCookTime(Tail(pizzas))

-----------------------------------------------------------------------------
\* C12. Tie-break invariance: the estimate depends on the ovens only through
\* the multiset of their free times: with currentlyCooking in any other order
\* (so with any other of several equally soon ovens taken first)
\* calculateDoneTime returns the same value.
C12_SameForEveryOvenOrder ==
    pc = "push" =>
        \A f \in Permutations(1..Len(currentlyCooking)) :
            DoneTimeFor([i \in 1..Len(currentlyCooking) |-> currentlyCooking[f[i]]],
                        pizzaQueue, currentTime, Head(ordersAtThisTime)) = endTime

\* An estimate over a queue, with two ovens equally soon and a later oven in
\* front of them.
C12_Witness ==
    /\ pc = "push" /\ Len(currentlyCooking) = OVEN_CAPACITY /\ pizzaQueue # <<>>
    /\ currentlyCooking[2].cookEndTime = currentlyCooking[3].cookEndTime
    /\ currentlyCooking[1].cookEndTime > currentlyCooking[2].cookEndTime
    /\ Head(pizzaQueue).cookTime > 0

-----------------------------------------------------------------------------
\* A call of addItem: each call records its argument and either throws or
\* pushes the item.
AddItemCalled == thrown' # thrown \/ items' # items

\* The minutes of [s, s + p) inside slot i of the timeline.
MinutesInSlot(i, s, p) ==
    Cardinality({m \in s..(s + p - 1) :
                    /\ m >= timeSlotTimeline[i].startTime
                    /\ m <= timeSlotTimeline[i].endTime})

\* usedTime added to slot i by the step.
UsedTimeAdded(i) == timeSlotTimeline'[i].usedTime - timeSlotTimeline[i].usedTime

RECURSIVE TotalUsedTimeAdded(_)
TotalUsedTimeAdded(i) ==
    IF i = 0 THEN 0 ELSE UsedTimeAdded(i) + TotalUsedTimeAdded(i - 1)

\* C13. Time-slot accounting: addItem of an item with startTime s and
\* prepTime p adds to each slot exactly the minutes of [s, s + p) inside it,
\* and p in total.
C13_SlotAccounting ==
    [][AddItemCalled =>
          /\ \A i \in 1..NumSlots :
                 UsedTimeAdded(i) = MinutesInSlot(i, item'.startTime, item'.prepTime)
          /\ TotalUsedTimeAdded(NumSlots) = item'.prepTime]_vars

\* The accounting for the calls that return: the item starts in a slot after
\* the first and ends inside the timeline.
C13_SlotAccountingWhenAccepted ==
    [][AddItemCalled /\ thrown' = "none" /\ item'.startTime >= 0 =>
          /\ \A i \in 1..NumSlots :
                 UsedTimeAdded(i) = MinutesInSlot(i, item'.startTime, item'.prepTime)
          /\ TotalUsedTimeAdded(NumSlots) = item'.prepTime]_vars

\* C14. "No time slot found" is thrown when, and only when, the startTime of
\* the item lies in no slot; an item that starts in a slot is accepted.
C14_ThrowsIffNoSlot ==
    [][AddItemCalled =>
          (thrown' = "No time slot found"
              <=> FindIndex(timeSlotTimeline, item'.startTime) = -1)]_vars

\* What the code does: the error is thrown exactly for the first slot.
C14_ThrowsIffFirstSlot ==
    [][AddItemCalled =>
          (thrown' = "No time slot found"
              <=> FindIndex(timeSlotTimeline, item'.startTime) = 0)]_vars

-----------------------------------------------------------------------------
\* The pizzas of the queue that the step puts in an oven.
StartedByStep ==
    {p \in Range(currentlyCooking') : \E i \in 1..Len(pizzaQueue) : pizzaQueue[i].id = p.id}

\* The ovens that are free once the finished pizzas of this tick are out.
FreeOvens ==
    OVEN_CAPACITY - Cardinality({i \in 1..Len(currentlyCooking) : ~Done(currentlyCooking[i])})

\* C15. Work conservation: when cookPizzas returns, a non-empty queue means
\* every oven is taken; the waiting pizzas that find a free oven are started
\* in this tick, with cookStartTime equal to it.
C15_WorkConserving ==
    [][pc = "cook" =>
          /\ pizzaQueue' # <<>> => Len(currentlyCooking') = OVEN_CAPACITY
          /\ Cardinality(StartedByStep) = Min2(FreeOvens, Len(pizzaQueue))
          /\ \A p \in StartedByStep : p.cookStartTime = currentTime]_vars

\* After the first tick, a pizza admitted in this tick waits behind ovens that
\* are all taken, one of them by a pizza started in this same tick.
C15_Witness ==
    /\ pc = "loop" /\ currentTime > 0
    /\ pizzaQueue # <<>> /\ Head(pizzaQueue).orderTime = currentTime
    /\ Len(currentlyCooking) = OVEN_CAPACITY
    /\ \E i \in 1..Len(currentlyCooking) :
           currentlyCooking[i].cookStartTime = currentTime

-----------------------------------------------------------------------------
\* C16. Precondition of the estimator: at every call of calculateDoneTime from
\* the tick loop at most OVEN_CAPACITY ovens are taken and no oven has a
\* cookEndTime before the current tick.
C16_EstimatorPrecondition ==
    pc = "calc" =>
        /\ Len(currentlyCooking) <= OVEN_CAPACITY
        /\ \A i \in 1..Len(currentlyCooking) :
               currentlyCooking[i].cookEndTime >= currentTime

\* The precondition in the runs where every cook time is positive.
C16_PreconditionForPositiveCookTimes ==
    (\A i \in 1..Len(orders) : orders[i].cookTime > 0) => C16_EstimatorPrecondition

-----------------------------------------------------------------------------
-----------------------------------------------------------------------------
\* The finish time of a started pizza.
ActualFinish(p) == p.cookStartTime + p.cookTime

\* q was admitted before p in the tick p was admitted in.
AdmittedJustBefore(q, p) == q.id < p.id /\ q.orderTime = p.orderTime

\* C18. Predictions under contention are exact: when every cook time is
\* positive, a pizza admitted while all ovens were taken finishes exactly when
\* predicted, whatever was admitted after it; the prediction differs from the
\* actual finish only for a pizza admitted with an oven free after another
\* pizza of the same tick.
C18_ExactUnderContention ==
    (\A i \in 1..Len(orders) : orders[i].cookTime > 0) =>
        \A p \in Range(AllPizzas) :
            Started(p) =>
                /\ p.id \in fullAtAdmission => Predicted(p) = ActualFinish(p)
                /\ Predicted(p) # ActualFinish(p) =>
                       /\ p.id \notin fullAtAdmission
                       /\ \E q \in Range(AllPizzas) : AdmittedJustBefore(q, p)

\* Two pizzas admitted in one tick with every oven taken (the second one with
\* the first waiting in front of it) have both finished, the second after a
\* wait.
C18_Witness ==
    \E p, q \in Range(completedPizzas) :
        /\ {p.id, q.id} \subseteq fullAtAdmission
        /\ AdmittedJustBefore(q, p)
        /\ p.cookStartTime > p.orderTime

====
